---------------------------- MODULE Spec2Model ----------------------------
(***************************************************************************)
(* Model of the piclib CAN driver interface (can.h): the header codec,     *)
(* the two acceptance-filter setups and their slot selection, the          *)
(* bit-timing setup, and the process-wide transmit status record.          *)
(*                                                                         *)
(* can.h declares the types, the two globals (messageStatus, filterSetup)  *)
(* and the driver's functions; the function bodies are not part of the     *)
(* header, so their effects are modelled from the design specification     *)
(* and from the header's own documentation comments.                       *)
(***************************************************************************)
EXTENDS Integers, Sequences, FiniteSets, TLC

(***************************************************************************)
(* Bounds of the model                                                     *)
(***************************************************************************)
\* number of filter-setup calls followed individually
MaxFilterCalls == 3
\* the application's clock runs from 0 to MaxTime
MaxTime == 3
\* longest single segment tried when the bit time is split
MaxSeg == 8

(***************************************************************************)
(* Enumerations and types of can.h                                         *)
(***************************************************************************)
NORMAL == 0
HEARTBEAT == 1
CONFIG == 2
\* 0b1011 written for 0b011
COMPLEX_typo == 8 + 3
COMPLEX == 3

MessageTypes == {NORMAL, HEARTBEAT, CONFIG, COMPLEX}

\* a messageType decode() does not recognise
UNKNOWN == 7

OK == 0
ERROR == 1
SENDING == 2
NOTHING_SENT == 3

MessageStatusCodes == {OK, ERROR, SENDING, NOTHING_SENT}

\* byte nodeID (NodeIDs_int: the field declared one bit wider)
NodeIDs_int == 0..256
NodeIDs == 0..255

Headers == [nodeID : NodeIDs, messageType : MessageTypes]

\* the headers the driver calls are exercised with: the node identifiers at
\* both ends of the range and on both sides of the most-significant bit
HeaderSamples == { h \in Headers : h.nodeID \in {0, 127, 128, 255} }

\* CanMessage: the header and the switch flag; the messages can_send is called with
Messages ==
    [header : { h \in HeaderSamples : h.nodeID = 255 /\ h.messageType \in {NORMAL, HEARTBEAT} },
     isSwitchOn : BOOLEAN]

(***************************************************************************)
(* C integer operators on non-negative values                              *)
(***************************************************************************)
RECURSIVE BitAnd(_, _)
BitAnd(a, b) ==
    IF a = 0 \/ b = 0 THEN 0
    ELSE (a % 2) * (b % 2) + 2 * BitAnd(a \div 2, b \div 2)

RECURSIVE BitOr(_, _)
BitOr(a, b) ==
    IF a = 0 THEN b
    ELSE IF b = 0 THEN a
    ELSE (IF a % 2 = 1 \/ b % 2 = 1 THEN 1 ELSE 0) + 2 * BitOr(a \div 2, b \div 2)

ShiftLeft(a, n) == a * (2 ^ n)

ShiftRight(a, n) == a \div (2 ^ n)

(***************************************************************************)
(* Header codec                                                            *)
(***************************************************************************)
\* width of the messageType field of the identifier
TypeBits == 3
\* width of a standard CAN identifier
IdBits == 11

Identifiers == 0..(2 ^ IdBits - 1)

encode_shift2(h) == BitOr(ShiftLeft(h.nodeID, 2), h.messageType)
encode(h) == BitOr(ShiftLeft(h.nodeID, TypeBits), h.messageType)

decode(id) ==
    LET t == BitAnd(id, 2 ^ TypeBits - 1)
    IN  [nodeID |-> ShiftRight(id, TypeBits),
         messageType |-> IF t \in MessageTypes THEN t ELSE UNKNOWN]

NoValue == [none |-> TRUE]

(***************************************************************************)
(* State                                                                   *)
(***************************************************************************)
VARIABLES
    \* header codec: a header, its identifier once encoded, the header decoded from it
    header, identifier, decoded,
    \* acceptance filters: the two slots' registers and the slot toggle of can.h
    rxf, filterSetup,
    \* history of the filter-setup calls: the first call, the latest call, their number
    firstCall, lastCall, nCalls,
    \* transmit path: the status record of can.h, the application's clock, the
    \* transmit buffer, its request flag, the completion flag and its outcome
    messageStatus, now, txb0, txreq, txif, txOutcome,
    \* history of the transmit path: the latest operation, whether a send was
    \* issued, the statusCode the latest write of the record replaced
    lastOp, sent, prevCode,
    \* bit timing: the programmed registers, the latest call's arguments, whether
    \* that call wrote the registers, and what it handed back to its caller
    brg, baudArgs, brgWritten, baudSignal,
    \* main flow reading the status record field by field: its position, what it
    \* has read, and the values the record held while it was reading
    mainPc, observed, held

codecVars == <<header, identifier, decoded>>
filterVars == <<rxf, filterSetup, firstCall, lastCall, nCalls>>
txVars == <<messageStatus, now, txb0, txreq, txif, txOutcome, lastOp, sent, prevCode>>
baudVars == <<brg, baudArgs, brgWritten, baudSignal>>
readVars == <<mainPc, observed, held>>
vars == <<codecVars, filterVars, txVars, baudVars, readVars>>

FIRST == "FIRST"
SECOND == "SECOND"
Slots == {FIRST, SECOND}

\* boolean filterSetup = FALSE;
filterSetupInit == FALSE

\* MessageStatus messageStatus; has static storage and no initializer:
\* statusCode 0 (OK), timestamp 0
messageStatusInit == [statusCode |-> 0, timestamp |-> 0]

InitCodec ==
    /\ identifier = NoValue
    /\ decoded = NoValue

InitFilter ==
    /\ rxf = [s \in Slots |-> [mask |-> 0, value |-> 0]]
    /\ filterSetup = filterSetupInit
    /\ firstCall = NoValue
    /\ lastCall = NoValue
    /\ nCalls = 0

InitTx ==
    /\ messageStatus = messageStatusInit
    /\ now = 0
    /\ txb0 = NoValue
    /\ txreq = FALSE
    /\ txif = FALSE
    /\ txOutcome = "none"
    /\ lastOp = "none"
    /\ sent = FALSE
    /\ prevCode = messageStatusInit.statusCode

InitBaud ==
    /\ brg = NoValue
    /\ baudArgs = NoValue
    /\ brgWritten = FALSE
    /\ baudSignal = "none"

InitRead ==
    /\ mainPc = "idle"
    /\ observed = NoValue
    /\ held = {}

Init ==
    /\ header = [nodeID |-> 0, messageType |-> NORMAL]
    /\ InitCodec
    /\ InitFilter
    /\ InitTx
    /\ InitBaud
    /\ InitRead

(***************************************************************************)
(* Header codec steps                                                      *)
(***************************************************************************)
Encode ==
    /\ identifier = NoValue
    /\ identifier' = [value |-> encode(header)]
    /\ UNCHANGED <<header, decoded, filterVars, txVars, baudVars, readVars>>

Decode ==
    /\ identifier # NoValue
    /\ decoded = NoValue
    /\ decoded' = decode(identifier.value)
    /\ UNCHANGED <<header, identifier, filterVars, txVars, baudVars, readVars>>

\* the codec over its full domain
InitAllHeaders ==
    /\ header \in Headers
    /\ InitCodec
    /\ InitFilter
    /\ InitTx
    /\ InitBaud
    /\ InitRead

NextCodec ==
    \/ Encode
    \/ Decode

SpecCodec == InitAllHeaders /\ [][NextCodec]_vars

\* C1: for every header (nodeID 0..255, one of the four message types),
\* decode(encode(header)) has the same nodeID and the same messageType.
C1_RoundTrip ==
    decoded # NoValue =>
        /\ decoded.nodeID = header.nodeID
        /\ decoded.messageType = header.messageType

C1_Witness ==
    /\ decoded # NoValue
    /\ header = [nodeID |-> 255, messageType |-> COMPLEX]
    /\ identifier.value = 2043

\* C2: encode is injective over the full domain (two distinct headers never
\* share an identifier) and every identifier is below 2^11.
C2_InjectiveIn11Bits ==
    identifier # NoValue =>
        /\ identifier.value < 2048
        /\ \A h \in Headers : h # header => encode(h) # identifier.value

C2_Witness ==
    /\ identifier # NoValue
    /\ header = [nodeID |-> 128, messageType |-> CONFIG]
    /\ identifier.value = 1026

(***************************************************************************)
(* Acceptance filters                                                      *)
(***************************************************************************)
\* "a single mask only checking all bits to be equal"
StrictMask_nodeOnly == ShiftLeft(2 ^ 8 - 1, TypeBits)
StrictMask == 2 ^ IdBits - 1

\* "checking only 1st bit of the nodeID and all bits of the message type"
FirstBitMask_twoTypeBits == BitOr(ShiftLeft(2 ^ 7, TypeBits), 2 ^ 2 - 1)
FirstBitMask == BitOr(ShiftLeft(2 ^ 7, TypeBits), 2 ^ TypeBits - 1)

StrictFilter(h) == [mask |-> StrictMask, value |-> encode(h)]

FirstBitIdFilter(h) ==
    [mask |-> FirstBitMask, value |-> BitAnd(encode(h), FirstBitMask)]

\* the peripheral's acceptance test of an incoming identifier against one slot
Accepts(f, id) == BitAnd(id, f.mask) = BitAnd(f.value, f.mask)

\* the identifiers one slot accepts
AcceptedIds(f) ==
    LET v == BitAnd(f.value, f.mask)
    IN  { id \in Identifiers : BitAnd(id, f.mask) = v }

\* "whether a filter has already been setup. If so, the second filter would be used"
SlotFor_toggle(flag) == IF flag THEN FIRST ELSE SECOND
SlotFor(flag) == IF flag THEN SECOND ELSE FIRST

\* the common tail of the two setup calls: write the chosen slot, set the flag
WriteFilter(kind, h, f) ==
    LET slot == SlotFor(filterSetup)
        call == [kind |-> kind, header |-> h, slot |-> slot]
    IN  /\ nCalls < MaxFilterCalls
        /\ rxf' = [rxf EXCEPT ![slot] = f]
        /\ filterSetup' = TRUE
        /\ firstCall' = IF nCalls = 0 THEN call ELSE firstCall
        /\ lastCall' = call
        /\ nCalls' = nCalls + 1
        /\ UNCHANGED <<codecVars, txVars, baudVars, readVars>>

can_setupStrictReceiveFilter(h) == WriteFilter("strict", h, StrictFilter(h))

can_setupFirstBitIdReceiveFilter(h) == WriteFilter("firstBit", h, FirstBitIdFilter(h))

NextFilter ==
    \/ \E h \in HeaderSamples : can_setupStrictReceiveFilter(h)
    \/ \E h \in HeaderSamples : can_setupFirstBitIdReceiveFilter(h)

SpecFilter == Init /\ [][NextFilter]_vars

\* the filter a recorded call computes
FilterOf(call) ==
    IF call.kind = "strict" THEN StrictFilter(call.header)
    ELSE FirstBitIdFilter(call.header)

\* C3: after can_setupStrictReceiveFilter(header) the slot it wrote holds
\* mask 0x7FF and value encode(header), and accepts an 11-bit identifier
\* exactly when the identifier equals encode(header).
C3_StrictFilter ==
    (lastCall # NoValue /\ lastCall.kind = "strict") =>
        LET f == rxf[lastCall.slot]
            e == lastCall.header.nodeID * 8 + lastCall.header.messageType
        IN  /\ f.mask = 2047
            /\ f.value = e
            /\ e = encode(lastCall.header)
            /\ AcceptedIds(f) = {e}

C3_Witness ==
    /\ lastCall # NoValue
    /\ lastCall.kind = "strict"
    /\ lastCall.header = [nodeID |-> 128, messageType |-> CONFIG]
    /\ rxf[lastCall.slot] = [mask |-> 2047, value |-> 1026]

\* C4: after can_setupFirstBitIdReceiveFilter(header) the slot it wrote holds
\* mask 0x407 (bits 10, 2, 1, 0) whatever the header, and value
\* encode(header) restricted to those bits; it accepts an identifier exactly
\* when the identifier's nodeID top bit and 3-bit messageType field equal the
\* header's, whatever the other seven nodeID bits.
C4_FirstBitFilter ==
    (lastCall # NoValue /\ lastCall.kind = "firstBit") =>
        LET f == rxf[lastCall.slot]
            h == lastCall.header
        IN  /\ f.mask = 1024 + 4 + 2 + 1
            /\ f.value = (h.nodeID \div 128) * 1024 + h.messageType
            /\ AcceptedIds(f) =
                   { id \in Identifiers :
                       /\ id \div 1024 = h.nodeID \div 128
                       /\ id % 8 = h.messageType }

C4_Witness ==
    /\ lastCall # NoValue
    /\ lastCall.kind = "firstBit"
    /\ lastCall.header = [nodeID |-> 128, messageType |-> CONFIG]
    /\ rxf[lastCall.slot] = [mask |-> 1031, value |-> 1026]
    /\ Accepts(rxf[lastCall.slot], 255 * 8 + 2)
    /\ ~Accepts(rxf[lastCall.slot], 127 * 8 + 2)

SendStatusUpdate_stamped(ms) == [statusCode |-> SENDING, timestamp |-> now]
SendStatusUpdate(ms) == [ms EXCEPT !.statusCode = SENDING]

\* "the application code is required to keep it updated after a message is
\* sent (both timestamp and status)"
CompletedStatus(outcome) ==
    [statusCode |-> IF outcome = "ok" THEN OK ELSE ERROR, timestamp |-> now]

\* the application's clock advances
Tick ==
    /\ now < MaxTime
    /\ now' = now + 1
    /\ lastOp' = "tick"
    /\ UNCHANGED <<messageStatus, txb0, txreq, txif, txOutcome, sent, prevCode>>
    /\ UNCHANGED <<codecVars, filterVars, baudVars, readVars>>

\* can_send: load the one transmit buffer, request transmission, mark SENDING
can_send(m) ==
    /\ mainPc = "idle"
    /\ txb0' = [identifier |-> encode(m.header),
                data0 |-> IF m.isSwitchOn THEN 1 ELSE 0]
    /\ txreq' = TRUE
    /\ prevCode' = messageStatus.statusCode
    /\ messageStatus' = SendStatusUpdate(messageStatus)
    /\ lastOp' = "can_send"
    /\ sent' = TRUE
    /\ UNCHANGED <<now, txif, txOutcome>>
    /\ UNCHANGED <<codecVars, filterVars, baudVars, readVars>>

\* the peripheral finishes the requested transmission and raises its flag
TxComplete(outcome) ==
    /\ txreq
    /\ txreq' = FALSE
    /\ txif' = TRUE
    /\ txOutcome' = outcome
    /\ lastOp' = "txComplete"
    /\ UNCHANGED <<messageStatus, now, txb0, sent, prevCode>>
    /\ UNCHANGED <<codecVars, filterVars, baudVars, readVars>>

\* the application, polling in the main flow, records the outcome
AppUpdate ==
    /\ mainPc = "idle"
    /\ txif
    /\ txif' = FALSE
    /\ prevCode' = messageStatus.statusCode
    /\ messageStatus' = CompletedStatus(txOutcome)
    /\ lastOp' = "complete"
    /\ UNCHANGED <<now, txb0, txreq, txOutcome, sent>>
    /\ UNCHANGED <<codecVars, filterVars, baudVars, readVars>>

NextTx ==
    \/ Tick
    \/ \E m \in Messages : can_send(m)
    \/ \E o \in {"ok", "error"} : TxComplete(o)
    \/ AppUpdate

SpecTx == Init /\ [][NextTx]_vars

\* C6 (as stated): every call to can_send, whatever the current status,
\* leaves statusCode SENDING and timestamp equal to the time of the call,
\* and returns with the transmission still pending.
C6_SendStampsCallTime ==
    lastOp = "can_send" =>
        /\ messageStatus.statusCode = SENDING
        /\ messageStatus.timestamp = now
        /\ txreq

\* C6 (amended): every call to can_send, whatever the current status, leaves
\* statusCode SENDING and returns with the transmission still pending; it
\* does not write the timestamp, which stays as it was before the call.
C6_SendMarksSending ==
    [][lastOp' = "can_send" =>
          /\ messageStatus'.statusCode = SENDING
          /\ messageStatus'.timestamp = messageStatus.timestamp
          /\ txreq'
          /\ ~txif' \/ txif]_vars

C6_Witness ==
    /\ lastOp = "can_send"
    /\ prevCode = ERROR
    /\ messageStatus.statusCode = SENDING
    /\ messageStatus.timestamp = 1
    /\ now = 2
    /\ txreq

\* C7: the status starts at NOTHING_SENT; can_send only ever writes SENDING;
\* OK and ERROR are written only by the external caller and only over
\* SENDING; once a can_send has been issued the status is never NOTHING_SENT
\* again, and it stays SENDING until the caller records completion or a new
\* can_send overwrites it.
C7_StatusTransitions ==
    /\ ~sent => messageStatus.statusCode = NOTHING_SENT
    /\ sent => messageStatus.statusCode # NOTHING_SENT
    /\ lastOp = "can_send" => messageStatus.statusCode = SENDING
    /\ lastOp = "complete" =>
           /\ messageStatus.statusCode \in {OK, ERROR}
           /\ prevCode = SENDING
    /\ (sent /\ messageStatus.statusCode # SENDING) =>
           messageStatus.statusCode \in {OK, ERROR}

\* C7 without its first clause: what holds from the first can_send on
C7_AfterFirstSend ==
    /\ sent => messageStatus.statusCode \in {SENDING, OK, ERROR}
    /\ lastOp = "can_send" => messageStatus.statusCode = SENDING
    /\ lastOp = "complete" => messageStatus.statusCode \in {OK, ERROR}

(***************************************************************************)
(* Bit timing                                                              *)
(***************************************************************************)
\* "Max is 500 (the implementation uses 16TQ for the bit sequencing)"
MaxBaudRate_1000 == 2 * 500
MaxBaudRate == 500
TotalTQ == 16
\* the synchronisation segment is fixed at one time quantum
SyncSeg == 1

\* baud rates in kbit/s and clock speeds in MHz the setup is called with;
\* cpuSpeed * 1000 stays within a 16-bit int
BaudRates == {125, 250, 300, 500, 1000}
CpuSpeeds == {8, 16, 20}

\* the ways to split the remaining time quanta over the three segments
Splits ==
    { sp \in [propSeg : 1..MaxSeg, phaseSeg1 : 1..MaxSeg, phaseSeg2 : 1..MaxSeg] :
        sp.propSeg + sp.phaseSeg1 + sp.phaseSeg2 = TotalTQ - SyncSeg }

\* the clock divider giving TotalTQ quanta per bit, by integer division
Prescaler(baudRate, cpuSpeed) == (cpuSpeed * 1000) \div (TotalTQ * baudRate)

\* whether the setup programs the registers for this input
BaudAccepted(baudRate, cpuSpeed) ==
    /\ baudRate <= MaxBaudRate
    /\ (cpuSpeed * 1000) % (TotalTQ * baudRate) = 0

\* void can_setupBaudRate(volatile int baudRate, volatile int cpuSpeed)
can_setupBaudRate(baudRate, cpuSpeed, sp) ==
    /\ baudArgs' = [baudRate |-> baudRate, cpuSpeed |-> cpuSpeed]
    /\ IF BaudAccepted(baudRate, cpuSpeed)
       THEN /\ brg' = [prescaler |-> Prescaler(baudRate, cpuSpeed),
                       syncSeg |-> SyncSeg,
                       propSeg |-> sp.propSeg,
                       phaseSeg1 |-> sp.phaseSeg1,
                       phaseSeg2 |-> sp.phaseSeg2]
            /\ brgWritten' = TRUE
       ELSE /\ brg' = brg
            /\ brgWritten' = FALSE
    /\ baudSignal' = "void"
    /\ UNCHANGED <<codecVars, filterVars, txVars, readVars>>

NextBaud ==
    \E b \in BaudRates, c \in CpuSpeeds, sp \in Splits : can_setupBaudRate(b, c, sp)

SpecBaud == Init /\ [][NextBaud]_vars

\* C8: whenever can_setupBaudRate programs the registers, the baud rate is
\* at most 500 kbit/s, syncSeg is 1, the four segments sum to 16 time quanta
\* and prescaler * 16 * baudRate equals cpuSpeed (kbit/s against MHz * 1000);
\* 16 MHz at 500 kbit/s is programmed with prescaler 2.
C8_BitTiming ==
    /\ brgWritten =>
           /\ baudArgs.baudRate <= 500
           /\ brg.syncSeg = 1
           /\ brg.syncSeg + brg.propSeg + brg.phaseSeg1 + brg.phaseSeg2 = 16
           /\ brg.prescaler * 16 * baudArgs.baudRate = baudArgs.cpuSpeed * 1000
    /\ (baudArgs # NoValue /\ baudArgs.baudRate = 500 /\ baudArgs.cpuSpeed = 16) =>
           /\ brgWritten
           /\ brg.prescaler = 2

C8_Witness ==
    /\ brgWritten
    /\ baudArgs = [baudRate |-> 500, cpuSpeed |-> 16]
    /\ brg.prescaler = 2
    /\ brg.propSeg = 8

\* C9: for every (baudRate, cpuSpeed) that no integer prescaler satisfies,
\* can_setupBaudRate signals a configuration error to its caller and
\* programs no timing register.
C9_RejectsUnsatisfiable ==
    (/\ baudArgs # NoValue
     /\ ~ \E p \in 1..4000 : p * 16 * baudArgs.baudRate = baudArgs.cpuSpeed * 1000) =>
        /\ baudSignal = "configuration error"
        /\ ~brgWritten

(***************************************************************************)
(* The status record read by the main flow while a completion handler      *)
(* runs in interrupt context.  messageStatus is a plain global of two       *)
(* fields; can.h declares no lock, no accessor and no volatile qualifier,   *)
(* so the main flow reads the two fields one after the other, in either     *)
(* order, and the handler, which runs to completion, may come in between.   *)
(***************************************************************************)
ReadField(first, next) ==
    /\ mainPc = "idle"
    /\ mainPc' = next
    /\ observed' = [statusCode |-> IF first = "statusCode"
                                   THEN messageStatus.statusCode ELSE OK,
                    timestamp |-> IF first = "timestamp"
                                  THEN messageStatus.timestamp ELSE 0,
                    complete |-> FALSE]
    /\ held' = {messageStatus}
    /\ UNCHANGED <<codecVars, filterVars, txVars, baudVars>>

\* the main flow reads messageStatus.statusCode, the timestamp still to come
ReadStatusCodeFirst == ReadField("statusCode", "readTimestamp")

\* the main flow reads messageStatus.timestamp, the statusCode still to come
ReadTimestampFirst == ReadField("timestamp", "readStatusCode")

\* the main flow reads the field it has not read yet
ReadSecondField ==
    /\ mainPc \in {"readTimestamp", "readStatusCode"}
    /\ mainPc' = "idle"
    /\ observed' = [statusCode |-> IF mainPc = "readStatusCode"
                                   THEN messageStatus.statusCode
                                   ELSE observed.statusCode,
                    timestamp |-> IF mainPc = "readTimestamp"
                                  THEN messageStatus.timestamp
                                  ELSE observed.timestamp,
                    complete |-> TRUE]
    /\ UNCHANGED held
    /\ UNCHANGED <<codecVars, filterVars, txVars, baudVars>>

\* the completion handler, in interrupt context: it runs whenever the flag
\* is up, wherever the main flow stands, and writes both fields
CompletionHandler ==
    /\ txif
    /\ txif' = FALSE
    /\ prevCode' = messageStatus.statusCode
    /\ messageStatus' = CompletedStatus(txOutcome)
    /\ lastOp' = "complete"
    /\ held' = IF mainPc = "idle" THEN held ELSE held \cup {messageStatus'}
    /\ UNCHANGED <<now, txb0, txreq, txOutcome, sent, mainPc, observed>>
    /\ UNCHANGED <<codecVars, filterVars, baudVars>>

NextIrq ==
    \/ Tick
    \/ \E m \in Messages : can_send(m)
    \/ \E o \in {"ok", "error"} : TxComplete(o)
    \/ CompletionHandler
    \/ ReadStatusCodeFirst
    \/ ReadTimestampFirst
    \/ ReadSecondField

SpecIrq == Init /\ [][NextIrq]_vars

\* C10: with the main flow interleaved with a completion handler in
\* interrupt context, every (statusCode, timestamp) pair the main flow has
\* read is a value the record held at one moment of the read, never the
\* status of one update with the timestamp of another.
C10_NoTornRead ==
    (observed # NoValue /\ observed.complete) =>
        [statusCode |-> observed.statusCode, timestamp |-> observed.timestamp] \in held

=============================================================================
